---- MODULE Spec2Model ----
(***************************************************************************)
(* The k8s worker pool of leaf-hub-spec-sync                               *)
(* (pkg/controller/k8s-worker-pool): a bounded default jobs queue drained  *)
(* by poolSize workers, and one lazily created queue plus worker per       *)
(* impersonated user, created under impersonationWorkersLock.              *)
(*                                                                         *)
(* Goroutines are modelled as processes with a program counter: Start,     *)
(* one RunAsync caller per producer, and one loop per worker.  A panic     *)
(* that nothing recovers terminates the Go program, so every action is     *)
(* disabled once a goroutine has panicked.                                 *)
(***************************************************************************)
EXTENDS Integers, Sequences, FiniteSets, TLC

\* ------------------------------------------------------------------ bounds
MaxPoolSize  == 2   \* largest pool size tried
NumProducers == 2   \* goroutines calling RunAsync
MaxJobs      == 3   \* RunAsync calls in one behaviour
MaxLanes     == 2   \* channels createUserWorker may make
MaxEnvLen    == 3   \* longest value of K8S_CLIENTS_POOL_SIZE tried

Producers == 1..NumProducers
JobIds    == 1..MaxJobs
ChanIds   == 0..MaxLanes          \* 0 is pool.jobsQueue, 1.. are user queues
WorkerIds == 1..(MaxPoolSize + MaxLanes)

\* --------------------------------------------------------------- constants
NoUserIdentity == ""              \* rbac.NoUserIdentity
Users     == {"alice", "bob"}
Malformed == "malformed"          \* an object GetUserIdentity rejects
Objs      == {Malformed, NoUserIdentity} \cup Users
KubeConfig == "kubeConfig"        \* the client built from pool.kubeConfig
NilCtx    == "nil"                \* pool.ctx before Start assigns it
TheCtx    == "ctx"                \* the context passed to Start

\* the characters of the values tried for K8S_CLIENTS_POOL_SIZE
DigitChars == {"0", "1", "2", "3", "4", "5", "6", "7", "8", "9"}
EnvChars   == {"-", "+", "0", "3", "5", "a"}
defaultK8sClientsPoolSize == 10

VARIABLES
    envVar,        \* K8S_CLIENTS_POOL_SIZE: whether it is set, and its value
    poolSize,      \* pool.poolSize
    jobsQueueCap,  \* cap(pool.jobsQueue)
    ctxDone,       \* the context passed to Start has been cancelled
    poolCtx,       \* pool.ctx
    startPc,       \* position of Start
    startI,        \* loop variable i of Start
    closed,        \* closed[c]: channel c has been closed
    queues,        \* contents of every channel, by ChanIds
    nLanes,        \* number of user channels made so far
    impersonationWorkersQueues, \* pool.impersonationWorkersQueues: user -> channel
    lock,          \* pool.impersonationWorkersLock: 0, or the call that locked it
    worker,        \* the k8s workers, by WorkerIds
    jobObj,        \* job.obj of every job created, by job id
    pc,            \* position of each producer in RunAsync
    pjob,          \* the job of the producer's current RunAsync call
    workerQueue,   \* local variable workerQueue of RunAsync
    enq,           \* history: job ids in the order sent on each channel
    run,           \* history: job ids in the order handlers were invoked, by channel
    atCancel       \* history: jobs held by pool.jobsQueue when the context was cancelled

vars == <<envVar, poolSize, jobsQueueCap, ctxDone, poolCtx, startPc, startI, closed, queues, nLanes,
          impersonationWorkersQueues, lock, worker, jobObj, pc, pjob,
          workerQueue, enq, run, atCancel>>

confVars == <<envVar, poolSize, jobsQueueCap>>

\* ------------------------------------------------------------------ helpers
Range(s) == {s[i] : i \in 1..Len(s)}

\* strings are sequences of characters
DigitVal(c) ==
    CASE c = "0" -> 0 [] c = "1" -> 1 [] c = "2" -> 2 [] c = "3" -> 3
      [] c = "4" -> 4 [] c = "5" -> 5 [] c = "6" -> 6 [] c = "7" -> 7
      [] c = "8" -> 8 [] c = "9" -> 9
DigitChar(n) == CHOOSE c \in DigitChars : DigitVal(c) = n

RECURSIVE Decimal(_)
Decimal(ds) ==
    IF ds = <<>> THEN 0
    ELSE Decimal(SubSeq(ds, 1, Len(ds) - 1)) * 10 + DigitVal(ds[Len(ds)])

\* strconv.Atoi: an optional sign followed by one or more decimal digits;
\* anything else is an error (values of MaxEnvLen characters are far from
\* the range of int, so the range error cannot occur)
Atoi(s) ==
    LET signed == s # <<>> /\ s[1] \in {"+", "-"}
        ds     == IF signed THEN Tail(s) ELSE s
    IN  IF ds = <<>> \/ \E i \in 1..Len(ds) : ds[i] \notin DigitChars
        THEN [err |-> TRUE, value |-> 0]
        ELSE [err |-> FALSE,
              value |-> IF signed /\ s[1] = "-" THEN 0 - Decimal(ds) ELSE Decimal(ds)]

\* a readEnvVars that accepts every value that parses
readEnvVars_NoLowerBound(env) ==
    IF ~env.found THEN defaultK8sClientsPoolSize
    ELSE IF Atoi(env.value).err THEN defaultK8sClientsPoolSize
    ELSE Atoi(env.value).value

\* readEnvVars: the pool size K8S_CLIENTS_POOL_SIZE resolves to
readEnvVars(env) ==
    IF ~env.found THEN defaultK8sClientsPoolSize
    ELSE LET r == Atoi(env.value)
         IN  IF r.err \/ r.value < 1 THEN defaultK8sClientsPoolSize
             ELSE r.value

\* rbac.ImpersonationManager.GetUserIdentity: the user annotation of the
\* object, NoUserIdentity when it has none, an error on a malformed object.
GetUserIdentity(obj) ==
    IF obj = Malformed THEN [err |-> TRUE, id |-> NoUserIdentity]
                       ELSE [err |-> FALSE, id |-> obj]

\* rbac.ImpersonationManager.Impersonate: a client scoped to the user.
Impersonate(user) == user

UserOf(j) == GetUserIdentity(jobObj[j]).id

NoWorker == [st |-> "none", queue |-> 0, client |-> "-", ctx |-> "-", id |-> 0,
             user |-> "-", job |-> 0]

\* newK8sWorker(log, i, kubeConfig, jobsQueue) followed by start(ctx)
NewK8sWorker(i, ctx) ==
    [st |-> "wait", queue |-> 0, client |-> KubeConfig, ctx |-> ctx, id |-> i,
     user |-> NoUserIdentity, job |-> 0]

\* a user worker that is handed pool.jobsQueue instead of its own queue
NewK8sWorkerWithClient_OnJobsQueue(user, client, c, ctx) ==
    [st |-> "wait", queue |-> 0, client |-> client, ctx |-> ctx, id |-> 1,
     user |-> user, job |-> 0]

\* newK8sWorkerWithClient(log "impersonation-<user>", 1, k8sClient, workerQueue)
\* followed by start(pool.ctx)
NewK8sWorkerWithClient(user, client, c, ctx) ==
    [st |-> "wait", queue |-> c, client |-> client, ctx |-> ctx, id |-> 1,
     user |-> user, job |-> 0]

\* a goroutine has panicked and nothing recovered it: the program is gone
Panicked == \E p \in Producers : pc[p] = "panic"

\* a send that puts the job into the buffer twice
Send_Twice(q, j) == Append(Append(q, j), j)

\* a send that puts the job at the head of the buffer
Send_AtHead(q, j) == <<j>> \o q

\* ch <- job on a buffered channel
Send(q, j) == Append(q, j)

\* a Lock that excludes nobody
LockAvailable_NoMutex == TRUE

\* sync.Mutex.Lock returns only when the mutex is unlocked
LockAvailable == lock = 0

\* an Unlock placed after the send: the mutex stays locked at line 128
Unlocked_AfterSend == lock

\* sync.Mutex.Unlock
Unlocked == 0

\* a lookup that never finds the user's queue
Found_Never(user) == FALSE

\* _, found := pool.impersonationWorkersQueues[userIdentity]
Found(user) == user \in DOMAIN impersonationWorkersQueues

\* a RunAsync that ignores the error of GetUserIdentity
ExtractionFailed_Ignored(r) == FALSE

\* userIdentity, err := GetUserIdentity(job.obj); if err != nil
ExtractionFailed(r) == r.err

\* a test that sends every job to the controller worker pool
IsNoUserIdentity_Always(id) == TRUE

\* userIdentity == rbac.NoUserIdentity
IsNoUserIdentity(id) == id = NoUserIdentity

\* a Start that does not wait for the stop event
CtxDoneObserved_NoWait == TRUE

\* <-ctx.Done() in Start
CtxDoneObserved == ctxDone

\* --------------------------------------------------------------------- Init
\* AddK8sWorkerPool: both channels' capacity and the worker count are poolSize
Fresh ==
    /\ ctxDone = FALSE
    /\ poolCtx = NilCtx
    /\ startI = 1
    /\ closed = [c \in ChanIds |-> FALSE]
    /\ queues = [c \in ChanIds |-> <<>>]
    /\ nLanes = 0
    /\ impersonationWorkersQueues = <<>>
    /\ lock = 0
    /\ worker = [w \in WorkerIds |-> NoWorker]
    /\ jobObj = <<>>
    /\ pc = [p \in Producers |-> "idle"]
    /\ pjob = [p \in Producers |-> 0]
    /\ workerQueue = [p \in Producers |-> 0]
    /\ enq = [c \in ChanIds |-> <<>>]
    /\ run = [c \in ChanIds |-> <<>>]
    /\ atCancel = {}

\* a pool whose jobsQueue was made with one slot more than poolSize
Built_QueueOneLarger ==
    /\ poolSize = readEnvVars(envVar)
    /\ jobsQueueCap = poolSize + 1
    /\ startPc = "spawn"
    /\ Fresh

Built ==
    /\ poolSize = readEnvVars(envVar)
    /\ jobsQueueCap = poolSize
    /\ startPc = "spawn"
    /\ Fresh

\* the pool sizes the behaviours of the pool are explored with
Init ==
    /\ envVar \in {[found |-> TRUE, value |-> <<DigitChar(n)>>] : n \in 1..MaxPoolSize}
    /\ Built

startVars == <<poolCtx, startPc, startI, closed>>
prodVars  == <<pc, pjob, workerQueue, jobObj>>
laneVars  == <<nLanes, impersonationWorkersQueues>>
histVars  == <<enq, run, atCancel>>

\* -------------------------------------------------------------------- Start
\* one iteration of the loop of Start: newK8sWorker, then worker.start(ctx)
StartSpawnWorker ==
    /\ ~Panicked
    /\ startPc = "spawn" /\ startI <= poolSize
    /\ worker' = [worker EXCEPT ![startI] = NewK8sWorker(startI, TheCtx)]
    /\ startI' = startI + 1
    /\ UNCHANGED <<confVars, ctxDone, poolCtx, startPc, closed, queues, lock>>
    /\ UNCHANGED <<laneVars, prodVars, histVars>>

\* newK8sWorker returned an error: Start returns it
StartSpawnFails ==
    /\ ~Panicked
    /\ startPc = "spawn" /\ startI <= poolSize
    /\ startPc' = "failed"
    /\ UNCHANGED <<confVars, ctxDone, poolCtx, startI, closed, queues, lock, worker>>
    /\ UNCHANGED <<laneVars, prodVars, histVars>>

\* pool.ctx = ctx
StartSetCtx ==
    /\ ~Panicked
    /\ startPc = "spawn" /\ startI > poolSize
    /\ poolCtx' = TheCtx
    /\ startPc' = "wait"
    /\ UNCHANGED <<confVars, ctxDone, startI, closed, queues, lock, worker>>
    /\ UNCHANGED <<laneVars, prodVars, histVars>>

\* <-ctx.Done()
StartWait ==
    /\ ~Panicked
    /\ startPc = "wait"
    /\ CtxDoneObserved
    /\ startPc' = "close"
    /\ UNCHANGED <<confVars, ctxDone, poolCtx, startI, closed, queues, lock, worker>>
    /\ UNCHANGED <<laneVars, prodVars, histVars>>

\* Start closes every queue of the pool
ClosedByStart_EveryQueue == ChanIds

\* the channels Start closes: close(pool.jobsQueue)
ClosedByStart == {0}

\* close(pool.jobsQueue); return nil
StartClose ==
    /\ ~Panicked
    /\ startPc = "close"
    /\ closed' = [c \in ChanIds |-> closed[c] \/ c \in ClosedByStart]
    /\ startPc' = "done"
    /\ UNCHANGED <<confVars, ctxDone, poolCtx, startI, queues, lock, worker>>
    /\ UNCHANGED <<laneVars, prodVars, histVars>>

\* the manager cancels the context
Cancel ==
    /\ ~Panicked
    /\ ~ctxDone
    /\ ctxDone' = TRUE
    /\ atCancel' = Range(queues[0])
    /\ UNCHANGED <<confVars, startVars, queues, lock, worker, laneVars, prodVars, enq, run>>

\* ----------------------------------------------------------------- RunAsync
\* the call, GetUserIdentity and the two branches on its result
RunAsync(p, obj) ==
    /\ ~Panicked
    /\ pc[p] = "idle"
    /\ Len(jobObj) < MaxJobs
    /\ jobObj' = Append(jobObj, obj)
    /\ LET r == GetUserIdentity(obj)
           j == Len(jobObj) + 1
       IN  IF ExtractionFailed(r)
           THEN /\ pc' = pc                     \* logged, job dropped
                /\ pjob' = [pjob EXCEPT ![p] = 0]
           ELSE /\ pjob' = [pjob EXCEPT ![p] = j]
                /\ pc' = [pc EXCEPT ![p] =
                            IF IsNoUserIdentity(r.id) THEN "sendDefault" ELSE "lock"]
    /\ UNCHANGED <<confVars, ctxDone, startVars, queues, lock, worker, workerQueue>>
    /\ UNCHANGED <<laneVars, histVars>>

\* pool.jobsQueue <- job; return
SendDefault(p) ==
    /\ ~Panicked
    /\ pc[p] = "sendDefault"
    /\ ~closed[0]
    /\ Len(queues[0]) < jobsQueueCap
    /\ queues' = [queues EXCEPT ![0] = Send(@, pjob[p])]
    /\ enq' = [enq EXCEPT ![0] = Append(@, pjob[p])]
    /\ pc' = [pc EXCEPT ![p] = "idle"]
    /\ pjob' = [pjob EXCEPT ![p] = 0]
    /\ UNCHANGED <<confVars, ctxDone, startVars, lock, worker, laneVars>>
    /\ UNCHANGED <<workerQueue, jobObj, run, atCancel>>

\* a send on a closed channel, also when the sender was already blocked on
\* the full channel: panic "send on closed channel"
SendOnClosed(p) ==
    /\ ~Panicked
    /\ \/ pc[p] = "sendDefault" /\ closed[0]
       \/ pc[p] = "sendLane" /\ closed[workerQueue[p]]
    /\ pc' = [pc EXCEPT ![p] = "panic"]
    /\ UNCHANGED <<confVars, ctxDone, startVars, queues, lock, worker, laneVars>>
    /\ UNCHANGED <<pjob, workerQueue, jobObj, histVars>>

\* pool.impersonationWorkersLock.Lock()
Lock(p) ==
    /\ ~Panicked
    /\ pc[p] = "lock"
    /\ LockAvailable
    /\ lock' = pjob[p]
    /\ pc' = [pc EXCEPT ![p] = "lookup"]
    /\ UNCHANGED <<confVars, ctxDone, startVars, queues, worker, laneVars>>
    /\ UNCHANGED <<pjob, workerQueue, jobObj, histVars>>

\* if _, found := pool.impersonationWorkersQueues[userIdentity]; !found
Lookup(p) ==
    /\ ~Panicked
    /\ pc[p] = "lookup"
    /\ pc' = [pc EXCEPT ![p] = IF Found(UserOf(pjob[p])) THEN "unlock" ELSE "create"]
    /\ UNCHANGED <<confVars, ctxDone, startVars, queues, lock, worker, laneVars>>
    /\ UNCHANGED <<pjob, workerQueue, jobObj, histVars>>

\* createUserWorker: Impersonate succeeded; make the channel, start the
\* worker with pool.ctx, store the channel in the map
CreateUserWorker(p) ==
    /\ ~Panicked
    /\ pc[p] = "create"
    /\ nLanes < MaxLanes
    /\ LET user == UserOf(pjob[p])
           c    == nLanes + 1
       IN  /\ nLanes' = c
           /\ worker' = [worker EXCEPT ![MaxPoolSize + c] =
                           NewK8sWorkerWithClient(user, Impersonate(user), c, poolCtx)]
           /\ impersonationWorkersQueues' =
                  [u \in DOMAIN impersonationWorkersQueues \cup {user} |->
                       IF u = user THEN c ELSE impersonationWorkersQueues[u]]
    /\ pc' = [pc EXCEPT ![p] = "unlock"]
    /\ UNCHANGED <<confVars, ctxDone, startVars, queues, lock>>
    /\ UNCHANGED <<pjob, workerQueue, jobObj, histVars>>

\* createUserWorker: Impersonate failed; RunAsync logs and returns, and
\* the return statement is not preceded by an Unlock
CreateUserWorkerFails(p) ==
    /\ ~Panicked
    /\ pc[p] = "create"
    /\ pc' = [pc EXCEPT ![p] = "idle"]
    /\ pjob' = [pjob EXCEPT ![p] = 0]
    /\ UNCHANGED <<confVars, ctxDone, startVars, queues, lock, worker, laneVars>>
    /\ UNCHANGED <<workerQueue, jobObj, histVars>>

\* workerQueue := pool.impersonationWorkersQueues[userIdentity]; Unlock()
Unlock(p) ==
    /\ ~Panicked
    /\ pc[p] = "unlock"
    /\ workerQueue' = [workerQueue EXCEPT ![p] =
                          impersonationWorkersQueues[UserOf(pjob[p])]]
    /\ lock' = Unlocked
    /\ pc' = [pc EXCEPT ![p] = "sendLane"]
    /\ UNCHANGED <<confVars, ctxDone, startVars, queues, worker, laneVars>>
    /\ UNCHANGED <<pjob, jobObj, histVars>>

\* workerQueue <- job
SendLane(p) ==
    /\ ~Panicked
    /\ pc[p] = "sendLane"
    /\ ~closed[workerQueue[p]]
    /\ Len(queues[workerQueue[p]]) < poolSize
    /\ queues' = [queues EXCEPT ![workerQueue[p]] = Send(@, pjob[p])]
    /\ enq' = [enq EXCEPT ![workerQueue[p]] = Append(@, pjob[p])]
    /\ pc' = [pc EXCEPT ![p] = "idle"]
    /\ pjob' = [pjob EXCEPT ![p] = 0]
    /\ workerQueue' = [workerQueue EXCEPT ![p] = 0]
    /\ UNCHANGED <<confVars, ctxDone, startVars, lock, worker, laneVars>>
    /\ UNCHANGED <<jobObj, run, atCancel>>

\* ------------------------------------------------------------------ workers
\* the worker takes the next job of its queue and invokes its handler
WorkerTake(w) ==
    /\ ~Panicked
    /\ worker[w].st = "wait"
    /\ queues[worker[w].queue] # <<>>
    /\ LET c == worker[w].queue
           j == Head(queues[c])
       IN  /\ queues' = [queues EXCEPT ![c] = Tail(@)]
           /\ worker' = [worker EXCEPT ![w].st = "run", ![w].job = j]
           /\ run' = [run EXCEPT ![c] = Append(@, j)]
    /\ UNCHANGED <<confVars, ctxDone, startVars, lock, laneVars, prodVars, enq, atCancel>>

\* the handler returns
WorkerReturn(w) ==
    /\ ~Panicked
    /\ worker[w].st = "run"
    /\ worker' = [worker EXCEPT ![w].st = "wait", ![w].job = 0]
    /\ UNCHANGED <<confVars, ctxDone, startVars, queues, lock, laneVars, prodVars, histVars>>

\* the queue is closed and drained: the worker terminates
WorkerExitClosed(w) ==
    /\ ~Panicked
    /\ worker[w].st = "wait"
    /\ closed[worker[w].queue]
    /\ queues[worker[w].queue] = <<>>
    /\ worker' = [worker EXCEPT ![w].st = "exit"]
    /\ UNCHANGED <<confVars, ctxDone, startVars, queues, lock, laneVars, prodVars, histVars>>

\* the cancellation signal fires during an empty wait: the worker terminates.
\* A worker started with the unset pool.ctx has no signal that could fire.
WorkerExitCancel(w) ==
    /\ ~Panicked
    /\ worker[w].st = "wait"
    /\ worker[w].ctx = TheCtx /\ ctxDone
    /\ queues[worker[w].queue] = <<>>
    /\ worker' = [worker EXCEPT ![w].st = "exit"]
    /\ UNCHANGED <<confVars, ctxDone, startVars, queues, lock, laneVars, prodVars, histVars>>

\* --------------------------------------------------------------------- Next
Next ==
    \/ StartSpawnWorker
    \/ StartSpawnFails
    \/ StartSetCtx
    \/ StartWait
    \/ StartClose
    \/ Cancel
    \/ \E p \in Producers, obj \in Objs : RunAsync(p, obj)
    \/ \E p \in Producers : SendDefault(p)
    \/ \E p \in Producers : SendOnClosed(p)
    \/ \E p \in Producers : Lock(p)
    \/ \E p \in Producers : Lookup(p)
    \/ \E p \in Producers : CreateUserWorker(p)
    \/ \E p \in Producers : CreateUserWorkerFails(p)
    \/ \E p \in Producers : Unlock(p)
    \/ \E p \in Producers : SendLane(p)
    \/ \E w \in WorkerIds : WorkerTake(w)
    \/ \E w \in WorkerIds : WorkerReturn(w)
    \/ \E w \in WorkerIds : WorkerExitClosed(w)
    \/ \E w \in WorkerIds : WorkerExitCancel(w)

Spec == Init /\ [][Next]_vars

\* ------------------------------------------------- runs without cancellation
\* the steps of a pool whose context is never cancelled
LiveNext ==
    \/ StartSpawnWorker
    \/ StartSpawnFails
    \/ StartSetCtx
    \/ \E p \in Producers, obj \in Objs : RunAsync(p, obj)
    \/ \E p \in Producers : SendDefault(p)
    \/ \E p \in Producers : Lock(p)
    \/ \E p \in Producers : Lookup(p)
    \/ \E p \in Producers : CreateUserWorker(p)
    \/ \E p \in Producers : CreateUserWorkerFails(p)
    \/ \E p \in Producers : Unlock(p)
    \/ \E p \in Producers : SendLane(p)
    \/ \E w \in WorkerIds : WorkerTake(w)
    \/ \E w \in WorkerIds : WorkerReturn(w)

\* the Go scheduler runs every goroutine that can run: Start and the
\* RunAsync callers take their next step, a waiting worker receives when its
\* queue holds a job, and a goroutine waiting in Lock() gets the mutex when
\* it is unlocked again and again (sync.Mutex hands over to starving waiters)
SchedulerFairness ==
    /\ WF_vars(StartSpawnWorker \/ StartSpawnFails)
    /\ WF_vars(StartSetCtx)
    /\ \A p \in Producers :
          /\ WF_vars(SendDefault(p))
          /\ SF_vars(Lock(p))
          /\ WF_vars(Lookup(p))
          /\ WF_vars(CreateUserWorker(p) \/ CreateUserWorkerFails(p))
          /\ WF_vars(Unlock(p))
          /\ WF_vars(SendLane(p))
    /\ \A w \in WorkerIds : WF_vars(WorkerTake(w))

\* fair scheduling, every handler returns, the context is never cancelled
LiveSpec ==
    /\ Init /\ [][LiveNext]_vars
    /\ SchedulerFairness
    /\ \A w \in WorkerIds : WF_vars(WorkerReturn(w))

\* ------------------------------------------------ runs with a stalled queue
\* the user whose handler never returns
StalledUser == "alice"

\* the worker is inside a handler that never returns
Hung(w) == worker[w].user = StalledUser

\* LiveNext, but the handler of StalledUser's worker does not return
StallNext ==
    \/ StartSpawnWorker
    \/ StartSpawnFails
    \/ StartSetCtx
    \/ \E p \in Producers, obj \in Objs : RunAsync(p, obj)
    \/ \E p \in Producers : SendDefault(p)
    \/ \E p \in Producers : Lock(p)
    \/ \E p \in Producers : Lookup(p)
    \/ \E p \in Producers : CreateUserWorker(p)
    \/ \E p \in Producers : CreateUserWorkerFails(p)
    \/ \E p \in Producers : Unlock(p)
    \/ \E p \in Producers : SendLane(p)
    \/ \E w \in WorkerIds : WorkerTake(w)
    \/ \E w \in WorkerIds : ~Hung(w) /\ WorkerReturn(w)

\* fair scheduling, no cancellation, every other handler returns
StallSpec ==
    /\ Init /\ [][StallNext]_vars
    /\ SchedulerFairness
    /\ \A w \in WorkerIds : WF_vars(~Hung(w) /\ WorkerReturn(w))

\* ------------------------------------------------------- pool construction
\* every setting of K8S_CLIENTS_POOL_SIZE of at most MaxEnvLen characters
EnvSettings ==
    {[found |-> FALSE, value |-> <<>>]} \cup
    {[found |-> TRUE, value |-> v] : v \in UNION {[1..n -> EnvChars] : n \in 0..MaxEnvLen}}

\* before AddK8sWorkerPool
EnvInit ==
    /\ envVar \in EnvSettings
    /\ poolSize = 0
    /\ jobsQueueCap = 0
    /\ startPc = "unbuilt"
    /\ Fresh

poolVars == <<ctxDone, poolCtx, startI, closed, queues, nLanes,
              impersonationWorkersQueues, lock, worker, jobObj, pc, pjob,
              workerQueue, enq, run, atCancel>>

\* AddK8sWorkerPool: readEnvVars gives the size of pool.jobsQueue and
\* pool.poolSize; the pool is added to the manager, which will call Start
AddK8sWorkerPool ==
    /\ startPc = "unbuilt"
    /\ LET k8sWorkerPoolSize == readEnvVars(envVar)
       IN  /\ jobsQueueCap' = k8sWorkerPoolSize
           /\ poolSize' = k8sWorkerPoolSize
    /\ startPc' = "spawn"
    /\ UNCHANGED <<envVar, poolVars>>

\* rest.InClusterConfig or mgr.Add failed: no pool is returned
AddK8sWorkerPoolFails ==
    /\ startPc = "unbuilt"
    /\ startPc' = "nopool"
    /\ UNCHANGED <<confVars, poolVars>>

EnvNext == AddK8sWorkerPool \/ AddK8sWorkerPoolFails

EnvSpec == EnvInit /\ [][EnvNext]_vars

\* ------------------------------------------------------------------- claims
InLockedSection(p) == pc[p] \in {"lookup", "create", "unlock"}
LaneIds == 1..MaxLanes
LaneWorker(c) == worker[MaxPoolSize + c]
\* the channels createUserWorker has made for the user
LanesOf(u) == {c \in 1..nLanes : LaneWorker(c).user = u}
\* every job sent so far, on any channel
Enqueued == UNION {Range(enq[c]) : c \in ChanIds}

\* C1: for every interleaving of concurrent RunAsync calls, at most one
\* queue and one worker are ever created for a user; the map points at that
\* queue, and every job of the user that was sent, or is being sent, went to
\* that same queue.
C1_LaneCreatedAtMostOnce ==
    \A u \in Users :
        /\ Cardinality(LanesOf(u)) <= 1
        /\ Cardinality({w \in WorkerIds : worker[w].st # "none" /\ worker[w].user = u}) <= 1
        /\ Found(u) <=> LanesOf(u) # {}
        /\ Found(u) => impersonationWorkersQueues[u] \in LanesOf(u)
        /\ \A p \in Producers :
              (pc[p] = "sendLane" /\ UserOf(pjob[p]) = u)
                  => workerQueue[p] = impersonationWorkersQueues[u]
        /\ \A c \in ChanIds : \A j \in Range(enq[c]) :
              UserOf(j) = u => c = impersonationWorkersQueues[u]

\* two callers are in RunAsync for the same user at once and both hold the
\* same queue, which already received a job of that user
C1_Witness ==
    \E p, q \in Producers :
        /\ p # q
        /\ pc[p] = "sendLane" /\ pc[q] = "sendLane"
        /\ UserOf(pjob[p]) = UserOf(pjob[q])
        /\ workerQueue[p] = workerQueue[q]
        /\ enq[workerQueue[p]] # <<>>

\* C2: after a RunAsync whose Impersonate failed has returned, the lock is
\* free: whenever the lock is held, the call that locked it is still inside
\* the locked section of RunAsync (so a later call can take the lock).
C2_LockFreeAfterFailedSubmit ==
    lock # 0 => \E p \in Producers : pjob[p] = lock /\ InLockedSection(p)

\* the step in which createUserWorker fails and RunAsync returns
ImpersonateFailedStep(p) == pc[p] = "create" /\ pc'[p] = "idle"

\* C3: when Impersonate fails the job is dropped and the pool is left as it
\* was: no map entry, no queue, no worker, the job in no queue; and a later
\* RunAsync for a user without a queue, waiting for the lock while no call
\* is inside the locked section, takes the lock (and so reaches Impersonate
\* again).
C3_FailedImpersonateLeavesPoolAsBefore ==
    /\ [][\A p \in Producers :
            ImpersonateFailedStep(p) =>
                /\ UNCHANGED <<impersonationWorkersQueues, nLanes, worker, queues, enq>>
                /\ UserOf(pjob[p]) \notin DOMAIN impersonationWorkersQueues'
                /\ pjob[p] \notin Enqueued']_vars
    /\ [](\A p \in Producers :
            (/\ pc[p] = "lock"
             /\ ~Found(UserOf(pjob[p]))
             /\ ~Panicked
             /\ \A q \in Producers : ~InLockedSection(q))
                => ENABLED Lock(p))

\* C4: all jobs of one user are executed by one worker, one at a time: no
\* two workers run handlers for jobs of the same user at once, and all
\* handler invocations for a user were made from one queue.
C4_OneHandlerPerUserAtATime ==
    /\ \A w1, w2 \in WorkerIds :
          (/\ w1 # w2
           /\ worker[w1].st = "run" /\ worker[w2].st = "run"
           /\ UserOf(worker[w1].job) = UserOf(worker[w2].job))
              => UserOf(worker[w1].job) = NoUserIdentity
    /\ \A c1, c2 \in ChanIds : \A j1 \in Range(run[c1]), j2 \in Range(run[c2]) :
          UserOf(j1) = UserOf(j2) => c1 = c2

\* a user's worker runs a handler while two more jobs of the same user, sent
\* by two concurrent callers, are queued or being sent behind it
C4_Witness ==
    \E c \in LaneIds :
        /\ LaneWorker(c).st = "run"
        /\ queues[c] # <<>>
        /\ \E p \in Producers : pc[p] = "sendLane" /\ workerQueue[p] = c

\* C5: routing respects identity.  A job without user identity is only sent
\* on pool.jobsQueue, its call never takes the lock, and it runs on a
\* controller worker with the kubeConfig client; a job of user X is only
\* sent on X's queue and runs with the client Impersonate gave for X;
\* different users have different queues and workers.
C5_RoutingRespectsIdentity ==
    /\ \A j \in Range(enq[0]) : UserOf(j) = NoUserIdentity
    /\ \A c \in LaneIds : \A j \in Range(enq[c]) :
          UserOf(j) \in Users /\ UserOf(j) = LaneWorker(c).user
    /\ \A p \in Producers :
          (pjob[p] # 0 /\ UserOf(pjob[p]) = NoUserIdentity)
              => pc[p] \in {"sendDefault", "panic"} /\ lock # pjob[p]
    /\ \A w \in WorkerIds :
          worker[w].st = "run" =>
              IF UserOf(worker[w].job) = NoUserIdentity
              THEN w <= MaxPoolSize /\ worker[w].client = KubeConfig /\ worker[w].queue = 0
              ELSE /\ w > MaxPoolSize
                   /\ worker[w].client = Impersonate(UserOf(worker[w].job))
                   /\ worker[w].queue = impersonationWorkersQueues[UserOf(worker[w].job)]
    /\ \A u, v \in DOMAIN impersonationWorkersQueues :
          u # v => impersonationWorkersQueues[u] # impersonationWorkersQueues[v]

\* handlers of two different users and of a job without identity are all
\* in progress at the same time, each on its own worker
C5_Witness ==
    \E w1, w2, w3 \in WorkerIds :
        /\ worker[w1].st = "run" /\ worker[w2].st = "run" /\ worker[w3].st = "run"
        /\ UserOf(worker[w1].job) = "alice"
        /\ UserOf(worker[w2].job) = "bob"
        /\ UserOf(worker[w3].job) = NoUserIdentity

Sending(p) == pc[p] \in {"sendDefault", "sendLane"}
\* the channel the producer is sending on
Destination(p) == IF pc[p] = "sendDefault" THEN 0 ELSE workerQueue[p]

\* C6: RunAsync applies backpressure and never drops a job because its
\* queue is full: while the destination queue holds poolSize jobs the
\* sender stays at the send with its job (no step ends the send), and a send
\* ends in a return only by putting the job on the destination queue, which
\* then had room.
C6_SendBlocksAndNeverDrops ==
    [][\A p \in Producers :
          Sending(p) =>
              /\ Len(queues[Destination(p)]) >= poolSize
                    => pc'[p] = pc[p] /\ pjob'[p] = pjob[p]
              /\ pc'[p] = "idle"
                    => /\ Len(queues[Destination(p)]) < poolSize
                       /\ pjob[p] \in Range(queues'[Destination(p)])]_vars

DefaultWorkersGone ==
    /\ startPc = "done"
    /\ \A i \in 1..poolSize : worker[i].st = "exit"

\* C8: graceful drain: once the program has stopped serving pool.jobsQueue
\* (its workers have exited after the close, or the program has terminated),
\* every job that was queued on pool.jobsQueue when the context was
\* cancelled has been taken by a controller worker and its handler invoked.
C8_GracefulDrain ==
    (Panicked \/ DefaultWorkersGone) => atCancel \subseteq Range(run[0])

\* the controller workers Start has started so far
Spawned == {i \in 1..MaxPoolSize : worker[i].st # "none"}
SpawnedAreDefault ==
    \A i \in Spawned :
        worker[i].queue = 0 /\ worker[i].client = KubeConfig /\ worker[i].ctx = TheCtx

\* C9 as claimed: whenever Start is past its loop, exactly poolSize workers
\* are started, all on pool.jobsQueue with the kubeConfig client; the queue
\* is closed only after the context is done and only by Start's single
\* close; and Start has returned only after closing the queue.
C9_StartReturnsOnlyAfterClose ==
    /\ SpawnedAreDefault
    /\ startPc # "spawn" => Spawned = 1..poolSize
    /\ closed[0] => ctxDone /\ startPc = "done"
    /\ startPc \in {"done", "failed"} => closed[0]

\* C9 amended: the same, for a Start in which every newK8sWorker succeeds;
\* a Start in which newK8sWorker fails returns the error at once, with
\* fewer than poolSize workers started and the queue never closed.
C9_StartClosesAfterCancelUnlessSpawnFails ==
    /\ SpawnedAreDefault
    /\ startPc \in {"wait", "close", "done"} => Spawned = 1..poolSize
    /\ startPc \in {"close", "done"} => ctxDone
    /\ closed[0] => ctxDone /\ startPc = "done"
    /\ startPc = "done" => closed[0]
    /\ startPc = "failed" => ~closed[0] /\ Cardinality(Spawned) < poolSize

\* Start has started two workers, waited for the cancelled context, closed
\* the queue and returned
C9_Witness ==
    /\ startPc = "done" /\ closed[0] /\ ctxDone
    /\ poolSize = 2 /\ Spawned = {1, 2}

IsPrefix(s, t) == Len(s) <= Len(t) /\ \A i \in 1..Len(s) : s[i] = t[i]

\* the queues served by a single worker: every user queue, and
\* pool.jobsQueue when poolSize = 1
SingleWorkerQueues == LaneIds \cup (IF poolSize = 1 THEN {0} ELSE {})

\* C10: on a queue served by a single worker the handlers are invoked in
\* exactly the order in which the jobs were sent on that queue.
C10_SingleWorkerQueueIsFifo ==
    \A c \in SingleWorkerQueues : IsPrefix(run[c], enq[c])

\* three jobs were sent on one user queue and its worker has invoked the
\* handlers of the first two
C10_Witness ==
    \E c \in LaneIds :
        /\ Len(run[c]) >= 2
        /\ Len(enq[c]) >= 3

\* C11: for every setting of K8S_CLIENTS_POOL_SIZE the pool size is 10 when
\* the variable is unset, is not a number or is a number below 1, and is the
\* number itself otherwise; it is at least 1, and it is both pool.poolSize
\* (the number of workers Start spawns) and the capacity of pool.jobsQueue.
C11_PoolSizeResolution ==
    startPc = "spawn" =>
        LET r == Atoi(envVar.value)
            set(v) == envVar.found /\ envVar.value = v
        IN  /\ poolSize = IF ~envVar.found \/ r.err \/ r.value < 1
                          THEN 10 ELSE r.value
            /\ poolSize >= 1
            /\ jobsQueueCap = poolSize
            /\ ~envVar.found => poolSize = 10
            /\ set(<<"0">>) => poolSize = 10
            /\ set(<<"-", "3">>) => poolSize = 10
            /\ set(<<"a">>) => poolSize = 10
            /\ set(<<"5">>) => poolSize = 5

\* the pool was built with K8S_CLIENTS_POOL_SIZE set to "-3" and has the
\* default size
C11_Witness ==
    /\ startPc = "spawn"
    /\ envVar = [found |-> TRUE, value |-> <<"-", "3">>]
    /\ poolSize = 10 /\ jobsQueueCap = 10

\* the step in which RunAsync is called with an object GetUserIdentity rejects
ExtractionFailedStep ==
    /\ Len(jobObj') = Len(jobObj) + 1
    /\ GetUserIdentity(jobObj'[Len(jobObj')]).err

\* C12: when GetUserIdentity fails, RunAsync drops the job and changes
\* nothing: the job is sent on no queue, the lock is not taken, the map is
\* unchanged, no worker or client is created, and the caller is back where
\* it was (RunAsync has returned); such a job is never queued, run, or held
\* by a call in progress.
C12_ExtractionFailureChangesNothing ==
    /\ [][ExtractionFailedStep =>
            /\ UNCHANGED <<queues, enq, run, lock, impersonationWorkersQueues,
                           nLanes, worker, pc, workerQueue>>
            /\ \A p \in Producers : pjob'[p] # Len(jobObj')
            /\ ~Panicked']_vars
    /\ [](\A j \in 1..Len(jobObj) :
            GetUserIdentity(jobObj[j]).err =>
                /\ j \notin Enqueued
                /\ \A p \in Producers : pjob[p] # j
                /\ \A w \in WorkerIds : worker[w].job # j
                /\ lock # j)

\* a rejected object was submitted to a pool that has queued other jobs
C12_Witness ==
    /\ Malformed \in Range(jobObj)
    /\ Enqueued # {}
    /\ nLanes > 0

\* how many times job j occurs in the sequences of f, over all channels
Occurrences(f, j) ==
    Cardinality(UNION {{<<c, i>> : i \in {k \in 1..Len(f[c]) : f[c][k] = j}} :
                          c \in ChanIds})

\* C13: at-most-once delivery: every job was sent on at most one queue and
\* at most once, is held by at most one queue, was taken at most once and
\* only from the queue it was sent on, and is run by at most one worker; a
\* job that was taken is in no queue any more.
C13_AtMostOnceDelivery ==
    \A j \in 1..Len(jobObj) :
        /\ Occurrences(enq, j) <= 1
        /\ Occurrences(queues, j) <= 1
        /\ Occurrences(run, j) <= 1
        /\ Cardinality({w \in WorkerIds : worker[w].job = j}) <= 1
        /\ \A c \in ChanIds :
              /\ j \in Range(run[c]) => j \in Range(enq[c]) /\ Occurrences(queues, j) = 0
              /\ j \in Range(queues[c]) => j \in Range(enq[c])
        /\ \A w \in WorkerIds : worker[w].job = j => j \in Range(run[worker[w].queue])
        /\ \A p \in Producers : pjob[p] = j => Occurrences(enq, j) = 0

\* two controller workers drain the same queue at once: each runs one of
\* two jobs that were queued together, and a third job is waiting
C13_Witness ==
    /\ worker[1].st = "run" /\ worker[2].st = "run"
    /\ worker[1].job # worker[2].job
    /\ Len(run[0]) = 2
    /\ Len(queues[0]) = 1

\* C14 as claimed: under fair scheduling, with handlers that return and no
\* cancellation, every job that was sent on pool.jobsQueue or on a user
\* queue is eventually taken by a worker of that queue and its handler
\* invoked.
C14_NoJobIsSkipped ==
    \A j \in JobIds :
        (\E c \in ChanIds : j \in Range(enq[c]))
            ~> (\E c \in ChanIds : j \in Range(enq[c]) /\ j \in Range(run[c]))

\* Start returned the error of newK8sWorker before it started any worker
NoDefaultWorker == startPc = "failed" /\ Spawned = {}

\* C14 amended: the same for every user queue, and for pool.jobsQueue
\* unless Start failed before it started its first worker (then nothing
\* ever takes a job from pool.jobsQueue).
C14_NoJobIsSkippedOnceWorkersRun ==
    \A j \in JobIds :
        (\E c \in ChanIds : j \in Range(enq[c]))
            ~> (\E c \in ChanIds :
                   /\ j \in Range(enq[c])
                   /\ j \in Range(run[c]) \/ (c = 0 /\ NoDefaultWorker))

\* two controller workers have between them run three jobs sent on
\* pool.jobsQueue
C14_Witness ==
    /\ Spawned = {1, 2}
    /\ Len(enq[0]) = 3
    /\ Len(run[0]) = 3

\* a user other than the one whose queue is stalled
OtherUser == "bob"
\* the RunAsync call of p carries a job of user u and is past line 114
SubmittingFor(p, u) ==
    /\ pc[p] \in {"lock", "lookup", "create", "unlock", "sendLane"}
    /\ UserOf(pjob[p]) = u

\* C15: a stalled queue is isolated: while the handler of StalledUser never
\* returns (its queue fills and its senders block), every RunAsync call for
\* OtherUser still gets through the lookup or creation of its queue and its
\* send and returns, and every job sent on OtherUser's queue is run.
C15_StalledQueueIsIsolated ==
    /\ \A p \in Producers : SubmittingFor(p, OtherUser) ~> (pc[p] = "idle")
    /\ \A j \in JobIds :
          (\E c \in LaneIds : LaneWorker(c).user = OtherUser /\ j \in Range(enq[c]))
              ~> (\E c \in LaneIds : LaneWorker(c).user = OtherUser /\ j \in Range(run[c]))

\* C16: every queue is bounded by poolSize: pool.jobsQueue and every user
\* queue never hold more than poolSize jobs, and no step changes poolSize
\* once the pool is built.
C16_QueuesBoundedByPoolSize ==
    /\ [](\A c \in ChanIds : Len(queues[c]) <= poolSize)
    /\ [][poolSize' = poolSize]_vars

\* a user queue of a pool of size two is full and a RunAsync call is
\* blocked sending on it
C16_Witness ==
    /\ poolSize = 2
    /\ \E p \in Producers :
          /\ pc[p] = "sendLane"
          /\ Len(queues[workerQueue[p]]) = poolSize

\* C17: user queues are permanent: once a user has an entry in
\* impersonationWorkersQueues no step removes it or points it at another
\* queue, a user queue that was made stays (the set only grows), and the
\* only queue ever closed is pool.jobsQueue: no user queue is closed, before
\* or after cancellation.
C17_LanesArePermanent ==
    /\ [][/\ DOMAIN impersonationWorkersQueues \subseteq DOMAIN impersonationWorkersQueues'
          /\ \A u \in DOMAIN impersonationWorkersQueues :
                impersonationWorkersQueues'[u] = impersonationWorkersQueues[u]
          /\ nLanes' >= nLanes
          /\ \A c \in 1..nLanes : LaneWorker(c)'.user = LaneWorker(c).user
                                  /\ LaneWorker(c)'.queue = c]_vars
    /\ [](\A c \in LaneIds : ~closed[c])

\* Start has closed pool.jobsQueue; alice and bob both have their queue, a
\* job waits on one of them and a RunAsync call is about to send another
C17_Witness ==
    /\ closed[0]
    /\ DOMAIN impersonationWorkersQueues = {"alice", "bob"}
    /\ \E c \in LaneIds : queues[c] # <<>> /\ LaneWorker(c).st = "wait"
    /\ \E p \in Producers : pc[p] = "sendLane" /\ ENABLED SendLane(p)

\* no goroutine of the program can take another step
Halted == ~ENABLED Next
\* no controller worker is inside a handler
NoHandlerInFlight == \A i \in 1..poolSize : worker[i].st # "run"

\* C18: controller workers terminate on shutdown: once the context is
\* cancelled and Start has closed pool.jobsQueue, and no handler is left in
\* flight, the program does not come to rest before each of the poolSize
\* controller workers has left its loop; and a worker leaves its loop only
\* from its wait, never while its own handler is running.
C18_DefaultWorkersTerminate ==
    /\ []((closed[0] /\ NoHandlerInFlight /\ Halted)
             => \A i \in 1..poolSize : worker[i].st = "exit")
    /\ [][\A w \in WorkerIds :
             (worker[w].st # "exit" /\ worker'[w].st = "exit") => worker[w].st = "wait"]_vars

\* C19: no RunAsync call ever sends on a closed queue: a call that is at
\* its send on pool.jobsQueue, newly arrived or blocked on the full queue,
\* is never there once Start has closed the queue, and no call panics with
\* "send on closed channel".
C19_NoSendOnClosedQueue ==
    /\ ~Panicked
    /\ \A p \in Producers : Sending(p) => ~closed[Destination(p)]

\* C20: every user worker is started with the context that was passed to
\* Start: pool.ctx is already set whenever createUserWorker reads it, so no
\* user worker holds the unset context, whether its job arrived before
\* Start, while Start was starting the controller workers, or later.
C20_LaneWorkersGetStartCtx ==
    \A c \in 1..nLanes : LaneWorker(c).ctx = TheCtx

====
